---------------------------- MODULE Spec2Model ----------------------------
(***************************************************************************)
(* Emperfect: the assertion parser (CheckString, CheckInfo.hpp), the       *)
(* CHECK(...) instrumentation pass (Testcase::ProcessChecks) and the       *)
(* Testcase scoring / reporting queries (Testcase.hpp).                    *)
(*                                                                         *)
(* A std::string is a sequence of one-character strings.  C++ positions    *)
(* are zero-based, so character i of s is s[i+1].  std::string::npos is    *)
(* the value NPOS; the only arithmetic the code performs on it is kept     *)
(* modulo 2^64 by AddSz.                                                   *)
(***************************************************************************)
EXTENDS Integers, Sequences, FiniteSets, TLC

\* ------------------------------------------------------------ bounds
MaxLen    == 4     \* longest assertion string given to CheckString
MaxSegs   == 3     \* a code block is at most this many segments of Segments
MaxChecks == 3     \* ProcessChecks stops being followed beyond this many records
MaxRuns   == 2     \* generation runs followed on one Testcase
TestPoints == 10   \* the points the Testcase is worth
TestId    == 1     \* Testcase::id given to the constructor
TestName  == <<"t">>  \* Testcase::name as the driver configured it

\* ------------------------------------------------------------ std::string
NPOS == -1

Min(S) == CHOOSE x \in S : \A y \in S : x <= y

\* s[i] / s.at(i) for an index known to be in range.
At(s, i) == s[i + 1]

\* x + k on size_t, for 1 <= k; npos + k wraps to k - 1.
AddSz(x, k) == IF x = NPOS THEN k - 1 ELSE x + k

\* std::string::find(pat, from): first position >= from where pat occurs.
Find(s, pat, from) ==
  LET hits == { i \in from .. (Len(s) - Len(pat)) :
                  SubSeq(s, i + 1, i + Len(pat)) = pat }
  IN  IF hits = {} THEN NPOS ELSE Min(hits)

\* std::string::substr(pos) for pos <= size().
SubstrFrom(s, pos) == SubSeq(s, pos + 1, Len(s))

\* std::string::substr(pos, n) for pos <= size(); n = NPOS is "to the end".
Substr(s, pos, n) ==
  IF n = NPOS \/ pos + n > Len(s) THEN SubSeq(s, pos + 1, Len(s))
  ELSE SubSeq(s, pos + 1, pos + n)

\* ------------------------------------------------------------ emp helpers
\* emp::find_any_of(test, start, pats...): the smallest position at which any
\* of the patterns is found at or after start, npos when none is.
find_any_of(s, start, pats) ==
  LET hits == { Find(s, p, start) : p \in pats } \ {NPOS}
  IN  IF hits = {} THEN NPOS ELSE Min(hits)

\* emp::is_whitespace
is_whitespace(c) == c \in {" ", "\t"}

\* emp::compress_whitespace: the loop over the characters, carrying
\* last_whitespace (initially true, which drops leading whitespace).
RECURSIVE CompressLoop(_, _, _, _)
CompressLoop(s, i, last_whitespace, acc) ==
  IF i > Len(s) THEN
    IF acc # <<>> /\ last_whitespace THEN SubSeq(acc, 1, Len(acc) - 1) ELSE acc
  ELSE IF is_whitespace(s[i]) THEN
    IF last_whitespace THEN CompressLoop(s, i + 1, TRUE, acc)
    ELSE CompressLoop(s, i + 1, TRUE, Append(acc, " "))
  ELSE CompressLoop(s, i + 1, FALSE, Append(acc, s[i]))

compress_whitespace(s) == CompressLoop(s, 1, TRUE, <<>>)

\* emp::find_paren_match(s, start): position of the ')' that closes the '('
\* at start, by counting depth; npos when the string ends first.
RECURSIVE ParenScan(_, _, _)
ParenScan(s, pos, open_count) ==
  IF pos >= Len(s) THEN NPOS
  ELSE IF At(s, pos) = "(" THEN ParenScan(s, pos + 1, open_count + 1)
  ELSE IF At(s, pos) = ")" THEN
    IF open_count = 1 THEN pos ELSE ParenScan(s, pos + 1, open_count - 1)
  ELSE ParenScan(s, pos + 1, open_count)

find_paren_match(s, start_pos) ==
  IF At(s, start_pos) # "(" THEN start_pos ELSE ParenScan(s, start_pos + 1, 1)

\* ------------------------------------------------------------ CheckString
LogicalOps  == { <<"&", "&">>, <<"|", "|">> }
Comparators == { <<"=", "=">>, <<"!", "=">>, <<"<">>, <<"<", "=">>,
                 <<">">>, <<">", "=">> }

\* Variant of HasLogicalOp that looks for "&&" only.
HasLogicalOp_OnlyAnd(test) == find_any_of(test, 0, { <<"&", "&">> }) # NPOS

\* The test of the first TestError: "&&" or "||" occurs in the string.
HasLogicalOp(test) == find_any_of(test, 0, LogicalOps) # NPOS

\* Position of the first comparator.
FirstComparator(test) == find_any_of(test, 0, Comparators)

\* The test of the second TestError: a comparator was found and another one
\* is found from comp_pos + 2 on.
HasSecondComparator(test, comp_pos) ==
  comp_pos # NPOS /\ find_any_of(test, comp_pos + 2, Comparators) # NPOS

\* comparator += test[comp_pos]; if (test.at(comp_pos+1) == '=') comparator += "=";
\* for comp_pos + 1 < size().
ComparatorAt(test, comp_pos) ==
  <<At(test, comp_pos)>> \o
     (IF At(test, comp_pos + 1) = "=" THEN <<"=">> ELSE <<>>)

Failure(kind, test) ==
  [err |-> kind, test |-> test, lhs |-> <<>>, comparator |-> <<>>, rhs |-> <<>>]

\* The constructor.  err is "none" when an object is constructed;
\* "MalformedAssertion" and "MultipleComparators" are the two TestError calls
\* ("Unit test checks do not allow && or ||", "Unit test checks can have only
\* one comparison"); "out_of_range" is the std::out_of_range thrown by
\* std::string::at.
CheckString(test) ==
  IF HasLogicalOp(test) THEN Failure("MalformedAssertion", test)
  ELSE LET comp_pos == FirstComparator(test) IN
    IF HasSecondComparator(test, comp_pos) THEN Failure("MultipleComparators", test)
    ELSE IF comp_pos # NPOS THEN
      IF comp_pos + 1 >= Len(test) THEN Failure("out_of_range", test)
      ELSE LET comparator == ComparatorAt(test, comp_pos) IN
        [err |-> "none", test |-> test,
         lhs |-> compress_whitespace(Substr(test, 0, comp_pos)),
         comparator |-> comparator,
         rhs |-> compress_whitespace(SubstrFrom(test, comp_pos + Len(comparator)))]
    ELSE [err |-> "none", test |-> test, lhs |-> test,
          comparator |-> <<>>, rhs |-> <<>>]


\* ------------------------------------------------------------ state
VARIABLES
  arg_test,           \* CheckString::CheckString: the argument _test
  parsed,             \* the CheckString it constructed, or how it failed
  hidden,             \* Testcase::hidden
  code,               \* Testcase::code: the lines of in-place code
  code_filename,      \* Testcase::code_filename, empty when not configured
  processed_code,     \* Testcase::processed_code
  checks,             \* Testcase::checks
  compile_exit_code,  \* Testcase::compile_exit_code
  output_match,       \* Testcase::output_match
  hit_timeout,        \* Testcase::hit_timeout
  pc,                 \* where the Testcase is in its lifecycle
  check_pos,          \* ProcessChecks: local check_pos
  check_end,          \* ProcessChecks: local check_end
  check_id,           \* ProcessChecks: local check_id
  check_body,         \* ProcessChecks: local check_body of the last iteration
  out,                \* ProcessChecks: the stringstream out
  err,                \* how generation ended abnormally, "none" otherwise
  runs,               \* number of ProcessChecks calls made on this Testcase
  report              \* what PrintResult wrote to the OutputInfo it was given

vars == <<arg_test, parsed, hidden, code, code_filename, processed_code, checks, compile_exit_code,
          output_match, hit_timeout, pc, check_pos, check_end, check_id,
          check_body, out, err, runs, report>>

tcVars == <<hidden, code, code_filename, processed_code, checks, compile_exit_code, output_match,
            hit_timeout, pc, check_pos, check_end, check_id, check_body, out,
            err, runs, report>>

\* All strings of at most n characters over alphabet A.
StringsUpTo(A, n) == UNION { [1 .. k -> A] : k \in 0 .. n }

NotParsed == Failure("pending", <<>>)
NoReport  == [printed |-> FALSE]

\* The fields of a Testcase as Testcase(size_t _id) and the member
\* initialisers leave them.
TestcaseConstructed ==
  /\ checks = <<>>
  /\ compile_exit_code = -1
  /\ output_match = TRUE
  /\ hit_timeout = FALSE
  /\ pc = "defined"
  /\ check_pos = 0 /\ check_end = 0 /\ check_id = 0
  /\ check_body = <<>>
  /\ out = <<>>
  /\ err = "none"
  /\ runs = 0
  /\ report = NoReport

\* ------------------------------------------------------------ the parser alone
ParseAlphabet == {"a", " ", "\t", "<", ">", "=", "!", "&", "|"}

InitParse ==
  /\ arg_test \in StringsUpTo(ParseAlphabet, MaxLen)
  /\ parsed = NotParsed
  /\ hidden = FALSE
  /\ code = <<>>
  /\ code_filename = <<>>
  /\ processed_code = <<>>
  /\ TestcaseConstructed

Construct ==
  /\ parsed.err = "pending"
  /\ parsed' = CheckString(arg_test)
  /\ UNCHANGED <<arg_test, tcVars>>

NextParse == Construct

SpecParse == InitParse /\ [][NextParse]_vars

\* ------------------------------------------------------------ Testcase
\* CheckInfo as ProcessChecks builds it: checks.emplace_back(check_body,
\* location, check_id).  passed starts false; the value texts start empty.
CheckInfo(cs, id) ==
  [id |-> id, test |-> cs.test, lhs |-> cs.lhs, comparator |-> cs.comparator,
   rhs |-> cs.rhs, passed |-> FALSE, lhs_value |-> <<>>, rhs_value |-> <<>>]

\* CheckInfo::ToCPP(): the instrumentation generated for one check, kept as
\* one token that names the check.
ToCPP(check) == << ToString(check.id) >>

CountPassed == Cardinality({ i \in DOMAIN checks : checks[i].passed })
CountFailed == Cardinality({ i \in DOMAIN checks : ~checks[i].passed })

\* Variant of Passed() that leaves out the compile exit code.
Passed_NoCompile == CountPassed = Len(checks) /\ output_match /\ ~hit_timeout

\* bool Passed() const
Passed ==
  CountPassed = Len(checks) /\ output_match /\ ~hit_timeout /\ compile_exit_code = 0

\* Variant of Passed(size_t) that fails an id no check has.
RECURSIVE PassedScan_NotFoundFails(_, _)
PassedScan_NotFoundFails(cs, test_id) ==
  IF cs = <<>> THEN FALSE
  ELSE IF Head(cs).id = test_id THEN Head(cs).passed
  ELSE PassedScan_NotFoundFails(Tail(cs), test_id)

\* bool Passed(size_t test_id) const: the loop over checks.
RECURSIVE PassedScan(_, _)
PassedScan(cs, test_id) ==
  IF cs = <<>> THEN TRUE
  ELSE IF Head(cs).id = test_id THEN Head(cs).passed
  ELSE PassedScan(Tail(cs), test_id)

Passed_id(test_id) == PassedScan(checks, test_id)

\* Variant of EarnedPoints() that awards the points unconditionally.
EarnedPoints_Always == TestPoints

\* double EarnedPoints() const
EarnedPoints == IF Passed THEN TestPoints ELSE 0

\* ------------------------------------------------------------ ProcessChecks
Marker == <<"C", "H", "E", "C", "K", "(">>

\* size_t check_pos = processed_code.find("CHECK("); check_end = 0; check_id = 0;
ProcessChecks_Begin ==
  /\ pc \in {"defined", "generated"}
  /\ report = [printed |-> FALSE]
  /\ runs < MaxRuns
  /\ runs' = runs + 1
  /\ out' = <<>>
  /\ check_pos' = Find(processed_code, Marker, 0)
  /\ check_end' = 0
  /\ check_id' = 0
  /\ check_body' = <<>>
  /\ pc' = "scan"
  /\ UNCHANGED <<arg_test, parsed, hidden, code, code_filename, processed_code, checks,
                 compile_exit_code, output_match, hit_timeout, err, report>>

\* Variant of the matching step that stops at the first ')'.
MatchEnd_FirstClose(text, pos) == Find(text, <<")">>, pos + 5)

\* check_end = emp::find_paren_match(processed_code, check_pos+5);
MatchEnd(text, pos) == find_paren_match(text, pos + 5)

\* const std::string check_body =
\*   processed_code.substr(check_pos+6, check_end-check_pos-6);
\* with check_end = npos the length is npos-check_pos-6, past any string.
CheckBody(text, pos, match_end) ==
  Substr(text, pos + 6, IF match_end = NPOS THEN NPOS ELSE match_end - pos - 6)

\* One pass of the while loop body.  A failing CheckString constructor ends
\* the call (and the program) before the record is stored.
ProcessChecks_Iter ==
  /\ pc = "scan"
  /\ check_pos # NPOS
  /\ Len(checks) < MaxChecks
  /\ LET copied    == Substr(processed_code, check_end, check_pos - check_end)
         match_end == MatchEnd(processed_code, check_pos)
         body      == CheckBody(processed_code, check_pos, match_end)
         next_end  == AddSz(match_end, 2)
         cs        == CheckString(body)
     IN  /\ check_body' = body
         /\ check_end' = next_end
         /\ IF cs.err # "none"
            THEN /\ pc' = "error"
                 /\ err' = cs.err
                 /\ out' = out \o copied
                 /\ UNCHANGED <<checks, check_id, check_pos>>
            ELSE /\ checks' = Append(checks, CheckInfo(cs, check_id))
                 /\ out' = out \o copied \o ToCPP(CheckInfo(cs, check_id))
                 /\ check_id' = check_id + 1
                 /\ check_pos' = Find(processed_code, Marker, next_end)
                 /\ UNCHANGED <<pc, err>>
  /\ UNCHANGED <<arg_test, parsed, hidden, code, code_filename, processed_code, compile_exit_code,
                 output_match, hit_timeout, runs, report>>

\* out << processed_code.substr(check_end); return out.str();
\* substr throws std::out_of_range when check_end > size().
ProcessChecks_Return ==
  /\ pc = "scan"
  /\ check_pos = NPOS
  /\ IF check_end > Len(processed_code)
     THEN /\ pc' = "error"
          /\ err' = "out_of_range"
          /\ UNCHANGED out
     ELSE /\ pc' = "generated"
          /\ out' = out \o SubstrFrom(processed_code, check_end)
          /\ UNCHANGED err
  /\ UNCHANGED <<arg_test, parsed, hidden, code, code_filename, processed_code, checks,
                 compile_exit_code, output_match, hit_timeout, check_pos,
                 check_end, check_id, check_body, runs, report>>

\* ------------------------------------------------------------ the driver
\* The suite driver (friend class Emperfect) is not part of these sources.
\* It stores what the builder and the executor return: the compile exit code,
\* then whether the run hit the timeout, whether the output matched and each
\* check's outcome as read from the result log.  Nothing is assumed about
\* which of these it skips after a failure.
RecordCompile(exit_code) ==
  /\ pc = "generated"
  /\ report = [printed |-> FALSE]
  /\ compile_exit_code' = exit_code
  /\ pc' = "compiled"
  /\ UNCHANGED <<arg_test, parsed, hidden, code, code_filename, processed_code, checks, output_match,
                 hit_timeout, check_pos, check_end, check_id, check_body, out,
                 err, runs, report>>

Resolve(check, ok) ==
  [check EXCEPT !.passed = ok,
                !.lhs_value = IF check.comparator = <<>> THEN <<>> ELSE <<"1">>,
                !.rhs_value = IF check.comparator = <<>> THEN <<>>
                              ELSE IF ok THEN <<"1">> ELSE <<"2">>]

RecordRun(timed_out, matched, outcome) ==
  /\ pc = "compiled"
  /\ report = [printed |-> FALSE]
  /\ hit_timeout' = timed_out
  /\ output_match' = matched
  /\ checks' = [i \in DOMAIN checks |-> Resolve(checks[i], outcome[i])]
  /\ pc' = "executed"
  /\ UNCHANGED <<arg_test, parsed, hidden, code, code_filename, processed_code, compile_exit_code,
                 check_pos, check_end, check_id, check_body, out, err, runs,
                 report>>

\* ------------------------------------------------------------ PrintResult
\* What is written to the output file is kept as a sequence of items, one per
\* block the code writes.  Every item has the same fields; those a block does
\* not write stay blank.  The plain and the HTML branch of each block write
\* the same fields and differ in markup only, which the items leave out.
BlankItem ==
  [kind |-> "", id |-> 0, name |-> <<>>, tag_hidden |-> FALSE,
   color |-> "", message |-> "", test |-> <<>>, compared |-> FALSE,
   lhs |-> <<>>, lhs_value |-> <<>>, rhs |-> <<>>, rhs_value |-> <<>>,
   code |-> <<>>]

\* The OutputInfo objects PrintResult may be given.
OutputInfos ==
  [results : BOOLEAN, hidden_details : BOOLEAN, passed_details : BOOLEAN]

HasResults(output)       == output.results
HasHiddenDetails(output) == output.hidden_details
HasPassedDetails(output) == output.passed_details

\* void PrintResult_Title(OutputInfo &) const
PrintResult_Title(output) ==
  << [BlankItem EXCEPT !.kind = "title",
                       !.id = TestId, !.name = TestName,
                       !.tag_hidden = hidden] >>

\* Variant of the message choice that reports a timeout before a compile
\* failure.
Message_TimeoutFirst ==
  IF Passed THEN "PASSED!"
  ELSE IF hit_timeout THEN "FAILED due to timeout."
  ELSE IF compile_exit_code # 0 THEN "FAILED during compilation."
  ELSE IF ~output_match THEN "FAILED due to mis-matched output."
  ELSE "FAILED due to unsuccessful check."

\* PrintResult_Success: the message chosen.
Message ==
  IF Passed THEN "PASSED!"
  ELSE IF compile_exit_code # 0 THEN "FAILED during compilation."
  ELSE IF hit_timeout THEN "FAILED due to timeout."
  ELSE IF ~output_match THEN "FAILED due to mis-matched output."
  ELSE "FAILED due to unsuccessful check."

\* void PrintResult_Success(OutputInfo &) const
PrintResult_Success(output) ==
  << [BlankItem EXCEPT !.kind = "result",
                       !.color = IF Passed THEN "green" ELSE "red",
                       !.message = Message] >>

\* CheckInfo::PrintResults: nothing for a passed check; for a failed one the
\* test text and, when there is a right-hand side, both sides with their
\* values.
CheckInfo_PrintResults(check, output) ==
  IF check.passed THEN <<>>
  ELSE << [BlankItem EXCEPT
             !.kind = "check", !.test = check.test,
             !.compared = (check.rhs # <<>>),
             !.lhs = IF check.rhs # <<>> THEN check.lhs ELSE <<>>,
             !.lhs_value = IF check.rhs # <<>> THEN check.lhs_value ELSE <<>>,
             !.rhs = check.rhs,
             !.rhs_value = IF check.rhs # <<>> THEN check.rhs_value ELSE <<>>] >>

RECURSIVE PrintAllChecks(_, _)
PrintAllChecks(cs, output) ==
  IF cs = <<>> THEN <<>>
  ELSE CheckInfo_PrintResults(Head(cs), output) \o PrintAllChecks(Tail(cs), output)

\* Variant of PrintResult_Checks that prints the checks of hidden test cases
\* too.
PrintResult_Checks_Unredacted(output) == PrintAllChecks(checks, output)

\* void PrintResult_Checks(OutputInfo &) const
PrintResult_Checks(output) ==
  IF ~hidden \/ HasHiddenDetails(output) THEN PrintAllChecks(checks, output)
  ELSE <<>>

\* void PrintCode(OutputInfo &) const: the lines of code.  The driver
\* collapses those lines into processed_code; the listing is kept as that
\* text.
PrintCode(output) ==
  << [BlankItem EXCEPT !.kind = "source",
                       !.code = processed_code] >>

\* bool print_code = ...
print_code(output) ==
  (~hidden \/ HasHiddenDetails(output)) /\ (~Passed \/ HasPassedDetails(output))

\* void PrintResult(OutputInfo &) const: everything it writes.
PrintResult_Text(output) ==
  IF ~HasResults(output) THEN <<>>
  ELSE PrintResult_Title(output) \o PrintResult_Success(output)
         \o PrintResult_Checks(output)
         \o (IF print_code(output) THEN PrintCode(output) ELSE <<>>)

\* A call of PrintResult on a fresh output.  The driver reports once the
\* test case has been generated and, possibly, built and run.
PrintResult(output) ==
  /\ pc \in {"generated", "compiled", "executed"}
  /\ report = [printed |-> FALSE]
  /\ report' = [printed |-> TRUE, output |-> output,
                text |-> PrintResult_Text(output)]
  /\ UNCHANGED <<arg_test, parsed, hidden, code, code_filename, processed_code, checks,
                 compile_exit_code, output_match, hit_timeout, pc, check_pos,
                 check_end, check_id, check_body, out, err, runs>>

\* ------------------------------------------------------------ the Testcase
\* Code blocks: up to MaxSegs segments, each one of these.
Segments ==
  { Marker,
    <<"a", ")">>,
    <<"(", "a", ")">>,
    <<";">>,
    <<"a", "<">>,
    <<"C", "H", "E", "C", "K", "(", "a", ")", ";">> }

RECURSIVE Concat(_)
Concat(ss) == IF ss = <<>> THEN <<>> ELSE Head(ss) \o Concat(Tail(ss))

CodeBlocks == { Concat(ss) : ss \in StringsUpTo(Segments, MaxSegs) }

\* The lines of code the driver collapsed into a block: none for an empty
\* block, otherwise the block as one line.
CodeLines(block) == IF block = <<>> THEN <<>> ELSE <<block>>

Init ==
  /\ arg_test = <<>>
  /\ parsed = NotParsed
  /\ hidden \in BOOLEAN
  /\ processed_code \in CodeBlocks
  /\ code = CodeLines(processed_code)
  /\ code_filename = <<>>
  /\ TestcaseConstructed

Next ==
  \/ ProcessChecks_Begin
  \/ ProcessChecks_Iter
  \/ ProcessChecks_Return
  \/ \E exit_code \in {0, 1} : RecordCompile(exit_code)
  \/ \E timed_out \in BOOLEAN, matched \in BOOLEAN,
        outcome \in [DOMAIN checks -> BOOLEAN] :
          RecordRun(timed_out, matched, outcome)
  \/ \E output \in OutputInfos : PrintResult(output)

Spec == Init /\ [][Next]_vars

\* ------------------------------------------------------------ GenerateCPP
\* emp::File file(code_filename); file.GetAllLines(): the file named holds
\* the block the driver processed.
FileLines == CodeLines(processed_code)

\* The test of the TestError in GenerateCPP: a code file is named and there
\* is in-place code as well.
BothSources == code_filename # <<>> /\ Len(code) # 0

\* void GenerateCPP(const std::string & header): with both sources TestError
\* ends the call; otherwise a named file is loaded into code and the file
\* written is the fixed boilerplate around what ProcessChecks() returns, whose
\* first statements are taken here.
GenerateCPP ==
  /\ pc \in {"defined", "generated"}
  /\ report = [printed |-> FALSE]
  /\ runs < MaxRuns
  /\ runs' = runs + 1
  /\ IF BothSources
     THEN /\ pc' = "error"
          /\ err' = "ConflictingCodeSource"
          /\ UNCHANGED <<code, out, check_pos, check_end, check_id, check_body>>
     ELSE /\ code' = IF code_filename # <<>> THEN FileLines ELSE code
          /\ out' = <<>>
          /\ check_pos' = Find(processed_code, Marker, 0)
          /\ check_end' = 0
          /\ check_id' = 0
          /\ check_body' = <<>>
          /\ pc' = "scan"
          /\ UNCHANGED err
  /\ UNCHANGED <<arg_test, parsed, hidden, code_filename, processed_code,
                 checks, compile_exit_code, output_match, hit_timeout, report>>

\* A Testcase as the driver configured it: in-place code, a code file, both
\* or neither; with neither there is no code to process.
InitGen ==
  /\ arg_test = <<>>
  /\ parsed = NotParsed
  /\ hidden = FALSE
  /\ \E block \in CodeBlocks, inplace \in BOOLEAN, named \in BOOLEAN :
       /\ processed_code = IF inplace \/ named THEN block ELSE <<>>
       /\ code = IF inplace THEN <<block>> ELSE <<>>
       /\ code_filename = IF named THEN <<"f">> ELSE <<>>
  /\ TestcaseConstructed

NextGen ==
  \/ GenerateCPP
  \/ ProcessChecks_Iter
  \/ ProcessChecks_Return

SpecGen == InitGen /\ [][NextGen]_vars

\* ------------------------------------------------------------ parser claims
\* pat occurs somewhere in s.
Occurs(pat, s) ==
  \E i \in 1 .. Len(s) :
    /\ i + Len(pat) - 1 <= Len(s)
    /\ \A j \in 1 .. Len(pat) : s[i + j - 1] = pat[j]

ContainsLogicalOp(s) == Occurs(<<"&", "&">>, s) \/ Occurs(<<"|", "|">>, s)

\* The comparator tokens of s, read left to right, longest match first: each
\* is [pos |-> 1-based position, tok |-> the token].
TwoCharComparators == { <<"=", "=">>, <<"!", "=">>, <<"<", "=">>, <<">", "=">> }

RECURSIVE TokensFrom(_, _)
TokensFrom(s, i) ==
  IF i > Len(s) THEN <<>>
  ELSE IF i < Len(s) /\ <<s[i], s[i + 1]>> \in TwoCharComparators
    THEN <<[pos |-> i, tok |-> <<s[i], s[i + 1]>>]>> \o TokensFrom(s, i + 2)
  ELSE IF s[i] \in {"<", ">"}
    THEN <<[pos |-> i, tok |-> <<s[i]>>]>> \o TokensFrom(s, i + 1)
  ELSE TokensFrom(s, i + 1)

ComparatorTokens(s) == TokensFrom(s, 1)

\* Whitespace normalisation, stated on words: the maximal runs of
\* non-whitespace characters of s, joined by single spaces.
IsSpace(c) == c = " " \/ c = "\t"

RECURSIVE WordsOf(_)
WordsOf(s) ==
  IF s = <<>> THEN <<>>
  ELSE IF IsSpace(Head(s)) THEN WordsOf(Tail(s))
  ELSE LET stops == { k \in 1 .. Len(s) : IsSpace(s[k]) }
           n     == IF stops = {} THEN Len(s) ELSE Min(stops) - 1
       IN  <<SubSeq(s, 1, n)>> \o WordsOf(SubSeq(s, n + 1, Len(s)))

RECURSIVE JoinWords(_)
JoinWords(ws) ==
  IF ws = <<>> THEN <<>>
  ELSE IF Len(ws) = 1 THEN ws[1]
  ELSE ws[1] \o <<" ">> \o JoinWords(Tail(ws))

Normalized(s) == JoinWords(WordsOf(s))

Constructed == parsed.err # "pending"

\* C3: every assertion string that contains "&&" or "||" anywhere is refused
\* with MalformedAssertion, whatever else it contains.
C3_LogicalOpsRefused ==
  (Constructed /\ ContainsLogicalOp(arg_test)) => parsed.err = "MalformedAssertion"

\* C3 witness: a string holding "||" next to a comparator has been refused.
C3_Witness ==
  /\ Constructed
  /\ Occurs(<<"|", "|">>, arg_test)
  /\ ComparatorTokens(arg_test) # <<>>
  /\ parsed.err = "MalformedAssertion"

\* C4: every assertion string free of "&&" and "||" that holds two or more
\* comparator tokens is refused with MultipleComparators, wherever the second
\* token sits (directly after a one-character first comparator included).
C4_TwoComparatorsRefused ==
  (Constructed /\ ~ContainsLogicalOp(arg_test) /\ Len(ComparatorTokens(arg_test)) >= 2)
     => parsed.err = "MultipleComparators"

\* C5: for every assertion string with exactly one comparator token the
\* constructor succeeds, the comparator is that token (longest match), the
\* left operand is the normalised text before it and the right operand the
\* normalised text after it.
C5_OneComparatorParsed ==
  (Constructed /\ ~ContainsLogicalOp(arg_test) /\ Len(ComparatorTokens(arg_test)) = 1)
     => LET t == ComparatorTokens(arg_test)[1] IN
        /\ parsed.err = "none"
        /\ parsed.comparator = t.tok
        /\ parsed.lhs = Normalized(SubSeq(arg_test, 1, t.pos - 1))
        /\ parsed.rhs = Normalized(SubSeq(arg_test, t.pos + Len(t.tok), Len(arg_test)))

\* C6: for every assertion string with no comparator token (and no "&&" /
\* "||") the constructor succeeds with comparator and right operand empty and
\* the left operand the whole string, whitespace-normalised.
C6_NoComparatorParsed ==
  (Constructed /\ ~ContainsLogicalOp(arg_test) /\ ComparatorTokens(arg_test) = <<>>)
     => /\ parsed.err = "none"
        /\ parsed.comparator = <<>>
        /\ parsed.rhs = <<>>
        /\ parsed.lhs = Normalized(arg_test)

\* ------------------------------------------------------------ Testcase claims
AllChecksPassed == \A i \in DOMAIN checks : checks[i].passed

AllGood ==
  AllChecksPassed /\ output_match /\ ~hit_timeout /\ compile_exit_code = 0

\* C1: in every reachable state Passed() is true exactly when every check
\* record has passed, the output matched, no timeout was hit and the compile
\* exit code is 0; with the not-yet-run sentinel it is false, and with no
\* checks it is decided by the other three conditions.
C1_PassedIff ==
  /\ Passed <=> AllGood
  /\ compile_exit_code = -1 => ~Passed
  /\ checks = <<>> =>
       (Passed <=> (output_match /\ ~hit_timeout /\ compile_exit_code = 0))

\* C1 witness: a run with at least one check, all passed, that Passed()
\* accepts.
C1_Witness ==
  pc = "executed" /\ Len(checks) >= 1 /\ AllChecksPassed /\ Passed

\* C2: EarnedPoints() is the points when all four conditions hold and 0
\* otherwise; with a non-zero compile exit code Passed() is false and
\* EarnedPoints() is 0 whatever the checks, output_match and hit_timeout are.
C2_EarnedPoints ==
  /\ AllGood => EarnedPoints = TestPoints
  /\ ~AllGood => EarnedPoints = 0
  /\ compile_exit_code # 0 => (~Passed /\ EarnedPoints = 0)

\* C2 witness: everything but the compile exit code is in order and nothing
\* is earned.
C2_Witness ==
  /\ pc = "executed" /\ compile_exit_code = 1
  /\ Len(checks) >= 1 /\ AllChecksPassed /\ output_match /\ ~hit_timeout
  /\ EarnedPoints = 0

\* C8: Passed(id) is true for an id no check record has, and otherwise the
\* passed flag of the (first) record with that id.
C8_PassedById ==
  \A test_id \in 0 .. MaxChecks + 1 :
    LET hits == { i \in DOMAIN checks : checks[i].id = test_id }
    IN  IF hits = {} THEN Passed_id(test_id) = TRUE
        ELSE Passed_id(test_id) = checks[Min(hits)].passed

\* C8 witness: a populated list with a failed and a passed record, asked for
\* both and for an id that is not there.
C8_Witness ==
  /\ pc = "executed" /\ Len(checks) = 2
  /\ ~checks[1].passed /\ checks[2].passed
  /\ ~Passed_id(checks[1].id) /\ Passed_id(checks[2].id)
  /\ Passed_id(MaxChecks + 1)

\* The message the outcome line must carry, by priority.
ExpectedMessage ==
  IF compile_exit_code # 0 THEN "FAILED during compilation."
  ELSE IF hit_timeout THEN "FAILED due to timeout."
  ELSE IF ~output_match THEN "FAILED due to mis-matched output."
  ELSE IF \E i \in DOMAIN checks : ~checks[i].passed
    THEN "FAILED due to unsuccessful check."
  ELSE "PASSED!"

Rendered == report.printed /\ report.output.results

ItemsOfKind(text, kind) == { i \in DOMAIN text : text[i].kind = kind }

\* C9: the outcome line carries exactly one message: the passed message iff
\* Passed(), otherwise the highest-priority failure reason (compile failure,
\* timeout, output mismatch, unsuccessful check); the unsuccessful-check
\* message appears only when some check record has not passed.
C9_OneMessageByPriority ==
  Rendered =>
    LET lines == ItemsOfKind(report.text, "result") IN
    /\ Cardinality(lines) = 1
    /\ \A i \in lines :
         /\ report.text[i].message = ExpectedMessage
         /\ (report.text[i].message = "PASSED!") <=> Passed
         /\ report.text[i].message = "FAILED due to unsuccessful check."
              => \E k \in DOMAIN checks : ~checks[k].passed

\* C9 witness: compile failure, timeout, mismatch and a failed check all hold
\* and the compile failure is what is reported.
C9_Witness ==
  /\ Rendered
  /\ compile_exit_code # 0 /\ hit_timeout /\ ~output_match
  /\ \E k \in DOMAIN checks : ~checks[k].passed
  /\ \E i \in DOMAIN report.text :
       report.text[i].message = "FAILED during compilation."

\* C10: a hidden test case rendered without hidden-detail visibility shows
\* the title and the outcome line only: no per-check detail and no source
\* listing, so what is written is fixed by id, name and the outcome message.
C10_HiddenRedacted ==
  (Rendered /\ hidden /\ ~report.output.hidden_details) =>
    /\ ItemsOfKind(report.text, "check") = {}
    /\ ItemsOfKind(report.text, "source") = {}
    /\ report.text =
         << [BlankItem EXCEPT !.kind = "title", !.id = TestId,
                              !.name = TestName, !.tag_hidden = TRUE],
            [BlankItem EXCEPT !.kind = "result",
                              !.message = ExpectedMessage,
                              !.color = IF ExpectedMessage = "PASSED!"
                                        THEN "green" ELSE "red"] >>

\* C10 witness: a hidden test case with a failed comparison, rendered with
\* passed-detail visibility but without hidden-detail visibility.
C10_Witness ==
  /\ Rendered /\ hidden
  /\ ~report.output.hidden_details /\ report.output.passed_details
  /\ \E k \in DOMAIN checks : ~checks[k].passed /\ checks[k].rhs # <<>>
  /\ Len(report.text) = 2

\* Number of '(' minus number of ')' among characters a..b of s (1-based).
Depth(s, a, b) ==
  Cardinality({ k \in a .. b : s[k] = "(" })
    - Cardinality({ k \in a .. b : s[k] = ")" })

\* The ')' positions at which the '(' at open is balanced.
Closers(s, open) ==
  { q \in open + 1 .. Len(s) : s[q] = ")" /\ Depth(s, open, q) = 0 }

\* C7: when the '(' of the CHECK( marker being processed has a matching ')',
\* the body ProcessChecks hands to the assertion parser is exactly the text
\* between that '(' and the ')' at which the depth returns to 0.
C7_BodyBetweenParens ==
  [][ (pc = "scan" /\ check_pos # NPOS
         /\ Closers(processed_code, check_pos + 6) # {})
      => /\ check_body' =
              SubSeq(processed_code, check_pos + 7,
                     Min(Closers(processed_code, check_pos + 6)) - 1)
         /\ Len(checks') > Len(checks)
              => checks'[Len(checks')].test = check_body' ]_vars

\* C7 witness: a body with a parenthesised sub-expression followed by more
\* text has been handed over whole.
C7_Witness ==
  /\ check_body = <<"(", "a", ")", "a">>
  /\ Len(checks) >= 1
  /\ checks[Len(checks)].test = check_body

\* ------------------------------------------------------------ generation claims
NoSource   == Len(code) = 0 /\ code_filename = <<>>
OneSource  == (Len(code) # 0) # (code_filename # <<>>)
TwoSources == Len(code) # 0 /\ code_filename # <<>>

\* C11: a call of GenerateCPP goes on to generate only when exactly one code
\* source is configured: with neither it fails with MissingCodeSource, with
\* both it fails with ConflictingCodeSource.
C11_ExactlyOneSource ==
  [][ (pc = "defined" \/ pc = "generated") =>
        ( /\ NoSource => (pc' = "error" /\ err' = "MissingCodeSource")
          /\ TwoSources => (pc' = "error" /\ err' = "ConflictingCodeSource")
          /\ pc' = "scan" => OneSource ) ]_vars

\* The marker "CHECK(" starts at character i of s (1-based).
MarkerAt(s, i) ==
  /\ i + 5 <= Len(s)
  /\ s[i] = "C" /\ s[i + 1] = "H" /\ s[i + 2] = "E" /\ s[i + 3] = "C"
  /\ s[i + 4] = "K" /\ s[i + 5] = "("

\* The first character after the invocation that closes at close: the one
\* behind the ')', or behind the ';' that directly follows it.
AfterInvocation(s, close) ==
  IF close < Len(s) /\ s[close + 1] = ";" THEN close + 2 ELSE close + 1

\* The CHECK invocations of s from character from on, in source order: each
\* is [pos |-> where its marker starts, close |-> where its ')' is], close
\* being 0 for a marker whose '(' is never closed, which ends the list.
RECURSIVE InvocationsFrom(_, _)
InvocationsFrom(s, from) ==
  LET starts == { i \in from .. Len(s) : MarkerAt(s, i) } IN
  IF starts = {} THEN <<>>
  ELSE LET p      == Min(starts)
           closes == Closers(s, p + 5)
       IN  IF closes = {} THEN << [pos |-> p, close |-> 0] >>
           ELSE << [pos |-> p, close |-> Min(closes)] >>
                  \o InvocationsFrom(s, AfterInvocation(s, Min(closes)))

Invocations(s) == InvocationsFrom(s, 1)

WellFormed(s) == \A k \in DOMAIN Invocations(s) : Invocations(s)[k].close # 0

InvocationBody(s, inv) == SubSeq(s, inv.pos + 6, inv.close - 1)

\* Characters of out that are generated instrumentation, not code.
CodeChars == {"C", "H", "E", "K", "(", ")", ";", "a", "<"}
InstrCount(o) == Cardinality({ i \in DOMAIN o : o[i] \notin CodeChars })

\* C12: when the '(' of the CHECK( marker being processed is never closed,
\* ProcessChecks fails with UnbalancedParentheses: no record is appended, no
\* instrumentation is emitted and the scan does not go on.
C12_UnbalancedRefused ==
  [][ (pc = "scan" /\ check_pos # NPOS
         /\ Closers(processed_code, check_pos + 6) = {})
      => ( /\ pc' = "error"
           /\ err' = "UnbalancedParentheses"
           /\ checks' = checks
           /\ InstrCount(out') = InstrCount(out) ) ]_vars

Generated == pc \in {"generated", "compiled", "executed"}

\* C13: after any number of generation runs the record at position i has id
\* i (zero-based, so the ids are pairwise distinct), and once generation is
\* through there is one record per CHECK invocation of the code block, the
\* i-th holding the i-th invocation's body.
C13_IdsInSourceOrder ==
  /\ \A i \in DOMAIN checks : checks[i].id = i - 1
  /\ \A i, j \in DOMAIN checks : i # j => checks[i].id # checks[j].id
  /\ (Generated /\ WellFormed(processed_code)) =>
       LET invs == Invocations(processed_code) IN
       /\ Len(checks) = Len(invs)
       /\ \A i \in DOMAIN invs :
            checks[i].test = InvocationBody(processed_code, invs[i])

\* What ProcessChecks must return: the code with each invocation replaced by
\* the instrumentation of its check and everything else copied.
RECURSIVE ExpectedFrom(_, _, _, _)
ExpectedFrom(s, invs, k, cursor) ==
  IF k > Len(invs) THEN SubSeq(s, cursor, Len(s))
  ELSE SubSeq(s, cursor, invs[k].pos - 1) \o << ToString(k - 1) >>
         \o ExpectedFrom(s, invs, k + 1, AfterInvocation(s, invs[k].close))

ExpectedOutput(s) == ExpectedFrom(s, Invocations(s), 1, 1)

AllBodiesParse(s) ==
  \A k \in DOMAIN Invocations(s) :
    CheckString(InvocationBody(s, Invocations(s)[k])).err = "none"

\* C14: for a code block whose invocations are all closed and parse,
\* ProcessChecks returns, and what it returns is the code with each
\* invocation replaced by its instrumentation and every other character
\* copied in order, whatever follows a closing parenthesis.
C14_OtherCodeVerbatim ==
  (/\ pc \in {"generated", "compiled", "executed", "error"}
   /\ WellFormed(processed_code) /\ AllBodiesParse(processed_code))
    => /\ pc # "error"
       /\ out = ExpectedOutput(processed_code)

\* C15: for every input string the constructor either yields a parsed
\* assertion or fails with MalformedAssertion or MultipleComparators.
C15_ParserTotal ==
  Constructed =>
    parsed.err \in {"none", "MalformedAssertion", "MultipleComparators"}

=============================================================================
